---- MODULE Spec2Model ----
(***************************************************************************)
(* Model of .github/scripts/generate_streak_svg.py: one run of the script  *)
(* (parse argv, fetch_contributions, calculate_streaks, generate_svg).     *)
(*                                                                         *)
(* Encodings                                                               *)
(*   str      a Python string is the sequence of its character codes       *)
(*            ('-' is 45, '0'..'9' are 48..57), so that sorted() on date   *)
(*            strings is a comparison of characters and strptime is a      *)
(*            parse of digits;                                             *)
(*   date     a datetime.date is <<year, month, day>>;                     *)
(*   dict     a dict is the sequence of its <<key, value>> items in        *)
(*            insertion order;                                             *)
(*   None     is <<>> where a date or a response body may be None.         *)
(***************************************************************************)
EXTENDS Integers, Sequences, FiniteSets, TLC

\* Length of the trailing window asked of the API, timedelta(days=365) in the
\* source, scaled down.
WindowDays == 4

----------------------------------------------------------------------------
(* datetime.date arithmetic (proleptic Gregorian ordinals, as CPython).    *)

IsLeap(y) == (y % 4 = 0) /\ ((y % 100 # 0) \/ (y % 400 = 0))

DaysInMonth(y, m) ==
    IF m = 2 THEN (IF IsLeap(y) THEN 29 ELSE 28)
    ELSE IF m \in {4, 6, 9, 11} THEN 30 ELSE 31

DaysBeforeYear(y) ==
    LET p == y - 1 IN p * 365 + (p \div 4) - (p \div 100) + (p \div 400)

RECURSIVE DaysBeforeMonth(_, _)
DaysBeforeMonth(y, m) ==
    IF m = 1 THEN 0 ELSE DaysBeforeMonth(y, m - 1) + DaysInMonth(y, m - 1)

\* date.toordinal()
ToOrdinal(date) ==
    DaysBeforeYear(date[1]) + DaysBeforeMonth(date[1], date[2]) + date[3]

\* (a - b).days for two dates
DaysBetween(a, b) == ToOrdinal(a) - ToOrdinal(b)

\* date + timedelta(days=1) and date - timedelta(days=1)
NextDay(date) ==
    IF date[3] < DaysInMonth(date[1], date[2]) THEN << date[1], date[2], date[3] + 1 >>
    ELSE IF date[2] < 12 THEN << date[1], date[2] + 1, 1 >>
    ELSE << date[1] + 1, 1, 1 >>

PrevDay(date) ==
    IF date[3] > 1 THEN << date[1], date[2], date[3] - 1 >>
    ELSE IF date[2] > 1 THEN << date[1], date[2] - 1, DaysInMonth(date[1], date[2] - 1) >>
    ELSE << date[1] - 1, 12, 31 >>

\* date + timedelta(days=n)
RECURSIVE AddDays(_, _)
AddDays(date, n) ==
    IF n = 0 THEN date
    ELSE IF n > 0 THEN AddDays(NextDay(date), n - 1)
    ELSE AddDays(PrevDay(date), n + 1)

----------------------------------------------------------------------------
(* Strings.                                                                *)

Digit(n) == 48 + n

TwoDigits(n) == << Digit(n \div 10), Digit(n % 10) >>

FourDigits(n) ==
    << Digit(n \div 1000), Digit((n \div 100) % 10),
       Digit((n \div 10) % 10), Digit(n % 10) >>

\* The API's 'YYYY-MM-DD' rendering of a calendar day.
IsoFormat(date) ==
    FourDigits(date[1]) \o <<45>> \o TwoDigits(date[2]) \o <<45>> \o TwoDigits(date[3])

\* s[:10]
Slice10(s) == IF Len(s) <= 10 THEN s ELSE SubSeq(s, 1, 10)

\* datetime.strptime(s, '%Y-%m-%d').date()
Strptime(s) ==
    << (s[1] - 48) * 1000 + (s[2] - 48) * 100 + (s[3] - 48) * 10 + (s[4] - 48),
       (s[6] - 48) * 10 + (s[7] - 48),
       (s[9] - 48) * 10 + (s[10] - 48) >>

MonthAbbr(m) ==
    << "Jan", "Feb", "Mar", "Apr", "May", "Jun",
       "Jul", "Aug", "Sep", "Oct", "Nov", "Dec" >>[m]

\* date.strftime("%b %d, %Y"): month abbreviation, zero-padded day, year.
Strftime(date) == << MonthAbbr(date[2]), TwoDigits(date[3]), FourDigits(date[1]) >>

\* a < b on Python strings: the first differing character decides, a proper
\* prefix is smaller.
StrLess(a, b) ==
    \/ \E i \in 1..Len(a) :
          /\ i <= Len(b)
          /\ a[i] < b[i]
          /\ \A j \in 1..(i - 1) : a[j] = b[j]
    \/ /\ Len(a) < Len(b)
       /\ \A j \in 1..Len(a) : a[j] = b[j]

----------------------------------------------------------------------------
(* dict and list helpers.                                                  *)

\* d[key] = value: an existing key keeps its place, a new key is appended.
DictSet(d, key, value) ==
    IF \E i \in 1..Len(d) : d[i][1] = key
    THEN [ i \in 1..Len(d) |-> IF d[i][1] = key THEN <<key, value>> ELSE d[i] ]
    ELSE Append(d, <<key, value>>)

\* list(d.keys())
Keys(d) == [ i \in 1..Len(d) |-> d[i][1] ]

RemoveAt(s, i) == SubSeq(s, 1, i - 1) \o SubSeq(s, i + 1, Len(s))

RECURSIVE SortStrings(_)
SortStrings(s) ==
    IF s = <<>> THEN <<>>
    ELSE LET m == CHOOSE i \in 1..Len(s) :
                     \A j \in 1..Len(s) : ~StrLess(s[j], s[i])
         IN  <<s[m]>> \o SortStrings(RemoveAt(s, m))

\* reversed(s)
Reversed(s) == [ i \in 1..Len(s) |-> s[Len(s) + 1 - i] ]

----------------------------------------------------------------------------
(* calculate_streaks.                                                      *)

\* sorted() left out: the keys in the dict's insertion order.
sorted_Unsorted(keys) == keys

\* sorted(daily_counts.keys())
sorted(keys) == SortStrings(keys)

\* delta < current: the comparison made strict.
StreakContinues_Strict(delta, current) == delta < current

\* delta <= current + 1: one missing day tolerated at every step.
StreakContinues_Grace(delta, current) == delta <= current + 1

\* The test of the backward scan: delta <= current.
StreakContinues(delta, current) == delta <= current

\* (date - datetime.now().date()).days: the operands exchanged.
Delta_Swapped(today, date) == DaysBetween(date, today)

\* delta = (datetime.now().date() - date).days
Delta(today, date) == DaysBetween(today, date)

\* The loop over reversed(dates): dates[i..] are still to be visited.  The
\* clock is read once per iteration in the source; the model holds it fixed
\* for the duration of the call.
RECURSIVE CurrentScan(_, _, _, _)
CurrentScan(dates, i, current, today) ==
    IF i > Len(dates) THEN current
    ELSE LET date  == Strptime(dates[i])
             delta == Delta(today, date)
         IN  IF StreakContinues(delta, current)
             THEN CurrentScan(dates, i + 1, current + 1, today)
             ELSE current

\* prev is None or (date - prev).days == 1; prev is <<>> for None, else <<date>>.
Consecutive(prev, date) == prev = <<>> \/ DaysBetween(date, prev[1]) = 1

\* The locals of the forward scan before its first iteration.
LongestInit ==
    [ longest |-> 0, streak |-> 0, prev |-> <<>>,
      longest_start |-> <<>>, longest_end |-> <<>> ]

\* One iteration of the forward scan.
LongestStep(st, date_str) ==
    LET date == Strptime(date_str) IN
    IF Consecutive(st.prev, date)
    THEN LET streak == st.streak + 1 IN
         IF streak > st.longest
         THEN [ longest       |-> streak,
                streak        |-> streak,
                prev          |-> <<date>>,
                longest_start |-> IF st.prev # <<>> THEN Strftime(st.prev[1])
                                                    ELSE Strftime(date),
                longest_end   |-> Strftime(date) ]
         ELSE [ st EXCEPT !.streak = streak, !.prev = <<date>> ]
    ELSE [ st EXCEPT !.streak = 1, !.prev = <<date>> ]

RECURSIVE LongestScan(_, _, _)
LongestScan(dates, i, st) ==
    IF i > Len(dates) THEN st
    ELSE LongestScan(dates, i + 1, LongestStep(st, dates[i]))

\* The third component of the returned tuple is a string; it is modelled as
\* <<kind, first, second>>:
\*   <<"date",  s, <<>>>>   the single formatted date s
\*   <<"range", a, b>>      f"{a} - {b}"
\*   <<"N/A", <<>>, <<>>>>  the literal "N/A"
\* The empty branch's result, datetime.now().strftime("%b %d, %Y").
EmptyResult(today) == << 0, 0, << "date", Strftime(today), <<>> >> >>

calculate_streaks(daily_counts_, today) ==
    IF daily_counts_ = <<>>
    THEN EmptyResult(today)
    ELSE LET dates == sorted(Keys(daily_counts_))
             cur   == CurrentScan(Reversed(dates), 1, 0, today)
             st    == LongestScan(dates, 1, LongestInit)
         IN  << cur, st.longest,
                IF st.longest_start # <<>>
                THEN << "range", st.longest_start, st.longest_end >>
                ELSE << "N/A", <<>>, <<>> >> >>

----------------------------------------------------------------------------
(* fetch_contributions.                                                    *)

\* len(token) < 10
MinTokenLen == 10

\* not token: the length check left out.
TokenInvalid_NoLength(tok) == tok = <<>>

\* not token or len(token) < 10; <<>> is an unset or empty GITHUB_TOKEN.
TokenInvalid(tok) == tok = <<>> \/ Len(tok) < MinTokenLen

\* count > 0
Positive(count) == count > 0

\* The checks on the reply with one more: a reply without any day of positive
\* count raises too.
FetchError_EmptyFatal(resp) ==
    IF resp.status_code # 200 THEN "HTTP"
    ELSE IF resp.errors THEN "GraphQL errors"
    ELSE IF ~resp.user THEN "User not found"
    ELSE IF \A i \in 1..Len(resp.days) : ~Positive(resp.days[i][2]) THEN "No contributions"
    ELSE "none"

\* The checks on the reply, in the order of the source; "none" when all pass.
FetchError(resp) ==
    IF resp.status_code # 200 THEN "HTTP"
    ELSE IF resp.errors THEN "GraphQL errors"
    ELSE IF ~resp.user THEN "User not found"
    ELSE "none"

\* The loops over weeks and contributionDays; days[i..] are still to be
\* visited, each day being <<date string, contributionCount>>.
RECURSIVE BuildDailyCounts(_, _, _)
BuildDailyCounts(days, i, acc) ==
    IF i > Len(days) THEN acc
    ELSE BuildDailyCounts(days, i + 1,
             IF Positive(days[i][2])
             THEN DictSet(acc, Slice10(days[i][1]), days[i][2])
             ELSE acc)

----------------------------------------------------------------------------
(* The environment of one run.                                             *)

\* sys.argv: the script name, then the arguments given (already stripped and
\* lower-case, so that strip() and lower() leave them as they are).
Argvs ==
    { << "generate_streak_svg.py" >>,
      << "generate_streak_svg.py", "octocat" >>,
      << "generate_streak_svg.py", "octocat", "sunset" >> }

\* GITHUB_TOKEN: unset, one character short of the minimum, of the minimum length.
Tokens ==
    { <<>>,
      [ i \in 1..(MinTokenLen - 1) |-> 103 ],
      [ i \in 1..MinTokenLen |-> 103 ] }

\* The local dates on which the run starts: the windows cross a year's end
\* and a leap day.
Todays == { <<2024, 1, 2>>, <<2024, 3, 1>> }

\* The 'YYYY-MM-DD' strings of the calendar days from_date..to_date of a
\* request made at UTC date to_date, oldest first.
Window(to_date) ==
    [ n \in 1..(WindowDays + 1) |-> IsoFormat(AddDays(to_date, n - 1 - WindowDays)) ]

\* The sequences without repetition over S.
RECURSIVE Arrangements(_)
Arrangements(S) ==
    {<<>>} \cup UNION { { <<x>> \o t : t \in Arrangements(S \ {x}) } : x \in S }

\* The days of the window that a does not list, oldest first.
RECURSIVE Others(_, _, _)
Others(w, a, i) ==
    IF i > Len(w) THEN <<>>
    ELSE (IF \E j \in 1..Len(a) : a[j] = i THEN <<>> ELSE << <<w[i], 0>> >>)
         \o Others(w, a, i + 1)

\* The contributionDays a reply may list: every day of the window once, the
\* days with a contribution (count 1) in any order, then the days without
\* (count 0).
DayLists(to_date) ==
    LET w == Window(to_date) IN
    { [ i \in 1..Len(a) |-> << w[a[i]], 1 >> ] \o Others(w, a, 1) :
        a \in Arrangements(1..(WindowDays + 1)) }

RECURSIVE SumCounts(_, _)
SumCounts(days, i) ==
    IF i > Len(days) THEN 0 ELSE days[i][2] + SumCounts(days, i + 1)

NoReply == [ status_code |-> 0, errors |-> FALSE, user |-> FALSE ]

\* What the server may answer.
Responses(to_date) ==
    { [ status_code |-> sc, errors |-> FALSE, user |-> FALSE, days |-> <<>>, total |-> 0 ] :
        sc \in {401, 502} }
    \cup { [ status_code |-> 200, errors |-> TRUE, user |-> FALSE, days |-> <<>>, total |-> 0 ],
           [ status_code |-> 200, errors |-> FALSE, user |-> FALSE, days |-> <<>>, total |-> 0 ] }
    \cup { [ status_code |-> 200, errors |-> FALSE, user |-> TRUE, days |-> d,
             total |-> SumCounts(d, 1) ] : d \in DayLists(to_date) }

----------------------------------------------------------------------------
(* The run.                                                                *)

VARIABLES
    pc,             \* "main", "fetch", "calc", "render", "done", "aborted"
    argv,           \* sys.argv
    token,          \* os.getenv("GITHUB_TOKEN")
    now_local,      \* datetime.now().date()
    now_utc,        \* datetime.utcnow().date()
    username,
    theme_slug,
    response,       \* status, errors and user of the reply; NoReply before it
    daily_counts,
    total,
    current,
    longest,
    longest_range,
    http_requests,  \* calls of requests.post
    fetch_calls,    \* calls of fetch_contributions
    calc_calls,     \* calls of calculate_streaks
    files,          \* the files saved by generate_svg
    error           \* the uncaught exception, "none" while there is none

vars ==
    << pc, argv, token, now_local, now_utc, username, theme_slug, response,
       daily_counts, total, current, longest, longest_range, http_requests,
       fetch_calls, calc_calls, files, error >>

Init ==
    /\ pc = "main"
    /\ argv \in Argvs
    /\ token \in Tokens
    /\ now_local \in Todays
    /\ now_utc \in { AddDays(now_local, k) : k \in {-1, 0, 1} }
    /\ username = ""
    /\ theme_slug = ""
    /\ response = NoReply
    /\ daily_counts = <<>>
    /\ total = 0
    /\ current = 0
    /\ longest = 0
    /\ longest_range = << "N/A", <<>>, <<>> >>
    /\ http_requests = 0
    /\ fetch_calls = 0
    /\ calc_calls = 0
    /\ files = {}
    /\ error = "none"

\* The script body up to the call of fetch_contributions.
Main ==
    /\ pc = "main"
    /\ theme_slug' = IF Len(argv) >= 3 THEN argv[3] ELSE "ocean-blue-dark"
    /\ IF Len(argv) < 2
       THEN /\ pc' = "aborted"
            /\ error' = "ValueError: Provide username as first argument"
            /\ UNCHANGED username
       ELSE /\ pc' = "fetch"
            /\ username' = argv[2]
            /\ UNCHANGED error
    /\ UNCHANGED << argv, token, now_local, now_utc, response, daily_counts,
                    total, current, longest, longest_range, http_requests,
                    fetch_calls, calc_calls, files >>

fetch_contributions ==
    /\ pc = "fetch"
    /\ fetch_calls' = fetch_calls + 1
    /\ IF TokenInvalid(token)
       THEN /\ pc' = "aborted"
            /\ error' = "ValueError: GITHUB_TOKEN missing or invalid!"
            /\ UNCHANGED << response, daily_counts, total, http_requests >>
       ELSE \E resp \in Responses(now_utc) :
            /\ http_requests' = http_requests + 1
            /\ response' = [ status_code |-> resp.status_code,
                             errors |-> resp.errors, user |-> resp.user ]
            /\ IF FetchError(resp) # "none"
               THEN /\ pc' = "aborted"
                    /\ error' = FetchError(resp)
                    /\ UNCHANGED << daily_counts, total >>
               ELSE /\ pc' = "calc"
                    /\ daily_counts' = BuildDailyCounts(resp.days, 1, <<>>)
                    /\ total' = resp.total
                    /\ UNCHANGED error
    /\ UNCHANGED << argv, token, now_local, now_utc, username, theme_slug,
                    current, longest, longest_range, calc_calls, files >>

\* current, longest, longest_range = calculate_streaks(daily_counts)
CalculateStreaks ==
    /\ pc = "calc"
    /\ calc_calls' = calc_calls + 1
    /\ LET r == calculate_streaks(daily_counts, now_local) IN
       /\ current' = r[1]
       /\ longest' = r[2]
       /\ longest_range' = r[3]
    /\ pc' = "render"
    /\ UNCHANGED << argv, token, now_local, now_utc, username, theme_slug,
                    response, daily_counts, total, http_requests, fetch_calls,
                    files, error >>

\* generate_svg saves one file, named after the theme, that shows its arguments.
generate_svg ==
    /\ pc = "render"
    /\ files' = files \cup
         { [ path |-> << "assets/Streaks/streak-", theme_slug, ".svg" >>,
             current |-> current, longest |-> longest, total |-> total,
             username |-> username, longest_range |-> longest_range ] }
    /\ pc' = "done"
    /\ UNCHANGED << argv, token, now_local, now_utc, username, theme_slug,
                    response, daily_counts, total, current, longest,
                    longest_range, http_requests, fetch_calls, calc_calls, error >>

Next ==
    \/ Main
    \/ fetch_contributions
    \/ CalculateStreaks
    \/ generate_svg

Spec == Init /\ [][Next]_vars

----------------------------------------------------------------------------
(* Properties.                                                             *)

\* The record as a set of day numbers, and the reference date's day number.
RecDays == { ToOrdinal(Strptime(daily_counts[i][1])) : i \in 1..Len(daily_counts) }

RefDay == ToOrdinal(now_local)

MaxOf(S) == CHOOSE x \in S : \A y \in S : y <= x

MinOf(S) == CHOOSE x \in S : \A y \in S : x <= y

\* The length of the maximal run of consecutive days of S that ends at d
\* (0 when d is not in S).
RunEndingAt(S, d) ==
    CHOOSE k \in 0..Cardinality(S) :
        /\ \A i \in 0..(k - 1) : (d - i) \in S
        /\ (d - k) \notin S

\* The length of the longest run of consecutive days of S.
MaxRun(S) == MaxOf({ RunEndingAt(S, d) : d \in S })

\* The key of the record that names day number n.
KeyOf(n) ==
    CHOOSE k \in { daily_counts[i][1] : i \in 1..Len(daily_counts) } :
        ToOrdinal(Strptime(k)) = n

\* calculate_streaks has returned and its results are in current, longest
\* and longest_range.
Returned == pc \in {"render", "done"}

NoFutureDate == \A d \in RecDays : d <= RefDay

\* C1: for a record that contains the reference date and no later date, the
\* current streak is the length of the maximal run of consecutive dates that
\* ends at the reference date.
C1_CurrentEndsAtReference ==
    (Returned /\ RefDay \in RecDays /\ NoFutureDate)
        => current = RunEndingAt(RecDays, RefDay)

C1_Witness ==
    /\ Returned
    /\ RefDay \in RecDays
    /\ NoFutureDate
    /\ current = 2
    /\ Cardinality(RecDays) = 4

\* C2: when the most recent date of the record is the day before the
\* reference date, the current streak is the length of the run of consecutive
\* dates ending at that day (at least 1), not 0.
C2_YesterdayStillCounts ==
    (Returned /\ RecDays # {} /\ MaxOf(RecDays) = RefDay - 1)
        => /\ current = RunEndingAt(RecDays, RefDay - 1)
           /\ current >= 1

\* C3: for a non-empty record, whatever the insertion order of its dates, the
\* longest streak is the maximum length over the maximal runs of consecutive
\* dates of the record.
C3_LongestIsMaxRun ==
    (Returned /\ daily_counts # <<>>) => longest = MaxRun(RecDays)

C3_Witness ==
    /\ Returned
    /\ Keys(daily_counts) # SortStrings(Keys(daily_counts))
    /\ longest = 2
    /\ Cardinality(RecDays) = 4
    /\ MaxOf(RecDays) - MinOf(RecDays) = 4

\* C4: for a non-empty record, the longest-streak range is (first day, last
\* day) of the chronologically first run whose length is the longest streak.
C4_RangeOfFirstLongestRun ==
    (Returned /\ daily_counts # <<>>)
        => LET n    == MaxRun(RecDays)
               last == MinOf({ d \in RecDays : RunEndingAt(RecDays, d) = n })
           IN  longest_range = << "range",
                                  Strftime(Strptime(KeyOf(last - n + 1))),
                                  Strftime(Strptime(KeyOf(last))) >>

\* C5: for an empty record, calculate_streaks returns current streak 0,
\* longest streak 0 and the 'not available' range, never a date.
C5_EmptyRecordGivesNotAvailable ==
    (Returned /\ daily_counts = <<>>)
        => /\ current = 0
           /\ longest = 0
           /\ longest_range = << "N/A", <<>>, <<>> >>

\* The data source step fails: no username argument, a missing or too short
\* token, or a reply with a non-200 status, GraphQL errors or no user.
BadToken == token = <<>> \/ Len(token) < 10

DataSourceFails ==
    \/ Len(argv) < 2
    \/ BadToken
    \/ /\ response # NoReply
       /\ (response.status_code # 200 \/ response.errors \/ ~response.user)

\* C6: when the data source step fails, the run aborts before
\* calculate_streaks is invoked and before generate_svg writes a file; with a
\* missing or invalid token no HTTP request is sent; no step is retried.
C6_FailureAbortsBeforeStreaks ==
    /\ DataSourceFails
         => /\ pc \in {"main", "fetch", "aborted"}
            /\ calc_calls = 0
            /\ files = {}
    /\ BadToken => http_requests = 0
    /\ fetch_calls <= 1
    /\ http_requests <= 1
    /\ pc = "aborted" => error # "none"

C6_Witness ==
    /\ pc = "aborted"
    /\ fetch_calls = 1
    /\ http_requests = 1
    /\ response.status_code = 200
    /\ ~response.errors
    /\ ~response.user

\* A successful reply in which no day has a positive contribution count.
EmptyResultSet ==
    /\ response.status_code = 200
    /\ ~response.errors
    /\ response.user
    /\ daily_counts = <<>>

\* C7, as stated: an empty result set aborts the run, which never reaches
\* generate_svg and never writes an image.
C7_EmptyResultSetIsFatal ==
    EmptyResultSet => /\ pc \notin {"render", "done"}
                      /\ files = {}

\* C7, amended: an empty result set does not abort the run; calculate_streaks
\* is invoked on the empty record, returns current 0 and longest 0, and
\* generate_svg writes the image that shows them.
C7_EmptyResultSetIsRendered ==
    EmptyResultSet
        => /\ pc \in {"calc", "render", "done"}
           /\ error = "none"
           /\ Returned => (calc_calls = 1 /\ current = 0 /\ longest = 0)
           /\ pc = "done" => \E f \in files : f.current = 0 /\ f.longest = 0

C7_Witness ==
    /\ EmptyResultSet
    /\ pc = "done"
    /\ files # {}

\* C8: for a non-empty record whose most recent date is two days or more
\* before the reference date, the current streak is 0, however long the run
\* ending at that date.
C8_BrokenStreakIsZero ==
    (Returned /\ RecDays # {} /\ MaxOf(RecDays) <= RefDay - 2) => current = 0

C8_Witness ==
    /\ Returned
    /\ RecDays # {}
    /\ MaxOf(RecDays) = RefDay - 2
    /\ RunEndingAt(RecDays, MaxOf(RecDays)) = 3

\* C9: for a record without a date later than the reference date,
\* 0 <= current streak <= longest streak <= number of dates of the record.
C9_CurrentAtMostLongest ==
    (Returned /\ NoFutureDate)
        => /\ 0 <= current
           /\ current <= longest
           /\ longest <= Len(daily_counts)

C9_Witness ==
    /\ Returned
    /\ NoFutureDate
    /\ current = 1
    /\ longest = 2
    /\ Len(daily_counts) = 3

\* C10: for every record and reference date, dates later than the reference
\* date included, a current streak of k >= 1 means that the k most recent
\* dates of the record are consecutive calendar days.
C10_CountedDatesAreConsecutive ==
    (Returned /\ current >= 1)
        => /\ current <= Cardinality(RecDays)
           /\ RunEndingAt(RecDays, MaxOf(RecDays)) >= current

====
